---- MODULE Spec2Model ----
(***************************************************************************)
(* A model of the test-case manager: the IndexedDB persistence wrapper    *)
(* (src/services/db.ts), the App component's handlers (src/App.tsx), the   *)
(* form controller (src/components/TestForm.tsx) and the JSON import and   *)
(* export controller (src/components/JsonManager.tsx).                     *)
(*                                                                         *)
(* JavaScript values are written as strings.  A value that is not a JS     *)
(* string is written as a token in angle brackets (Absent for undefined,   *)
(* JsTrue for the boolean true); timestamps are integers, AbsentNum        *)
(* standing for a timestamp property that is not there.                    *)
(***************************************************************************)
EXTENDS Integers, Sequences, FiniteSets, TLC

\* ------------------------------------------------------------ bounds

\* Date.now() ranges over 1..MaxClock.
MaxClock == 2
\* crypto.randomUUID() is called at most MaxUuid times.
MaxUuid == 1
\* At most MaxPending store requests are in flight at once.
MaxPending == 1
\* Submit is pressed at most MaxResubmit times more while a save is in flight.
MaxResubmit == 1
\* A session that imports a text again draws at most MaxReimport UUIDs more.
MaxReimport == 1

\* ------------------------------------------------------ JS vocabulary

Absent == "<undefined>"
JsTrue == "<true>"
JsNull == "<null>"
\* A JSON number other than 0, and a JSON object {"k": 1}.
JsNumber == "<5>"
JsObject == "<object>"
AbsentNum == -1
\* A createdAt ahead of every clock value the model reaches.
FutureTime == 9

\* src/types.ts:27-32
TestStatus == {"DRAFT", "PASSING", "FAILING", "SKIPPED"}

\* JS truthiness of a property value (`x || fallback`, `!x`).
Truthy(v) == v \notin {Absent, JsNull, ""}

\* `typeof v === 'object'`: true of an object and of null.
TypeofObject(v) == v \in {JsObject, JsNull}

\* `typeof v === 'string'`
TypeofString(v) == v \notin {Absent, JsNull, JsTrue, JsNumber, JsObject}

\* JSON.stringify(v, null, 2) of an object or of null.
StringifyValue(v) == IF v = JsNull THEN "null" ELSE "{ k: 1 }"

\* JS truthiness of a numeric property: undefined and 0 are falsy.
TruthyNum(n) == n \notin {AbsentNum, 0}

\* String.prototype.trim on the strings the model uses.
Trim(s) ==
  CASE s = "  " -> ""
    [] s = " smoke" -> "smoke"
    [] OTHER -> s

\* A value IndexedDB accepts as a key (a string here; a boolean is not one).
ValidKey(v) == v \notin {Absent, JsTrue}

\* The ids crypto.randomUUID() returns, in the order of the calls.
UuidNames == <<"u1", "u2", "u3", "u4", "u5", "u6">>

\* IndexedDB's key order on the ids of the model.
KeyOrder == <<"a", "b", "u1", "u2", "u3", "u4", "u5", "u6", JsTrue>>

KeyRank(id) == CHOOSE i \in 1..Len(KeyOrder) : KeyOrder[i] = id

\* ----------------------------------------------------------- sequences

Range(s) == {s[i] : i \in 1..Len(s)}

\* Array.prototype.filter(Boolean) after map(trim): src/components/JsonManager.tsx:48
RECURSIVE TrimFilter(_)
TrimFilter(s) ==
  IF s = <<>> THEN <<>>
  ELSE IF Truthy(Trim(Head(s))) THEN <<Trim(Head(s))>> \o TrimFilter(Tail(s))
  ELSE TrimFilter(Tail(s))

\* Array.from(new Set(s)): the first occurrence of each entry, in order.
RECURSIVE Dedup(_)
Dedup(s) ==
  IF s = <<>> THEN <<>>
  ELSE LET init == Dedup(SubSeq(s, 1, Len(s) - 1))
           last == s[Len(s)]
       IN IF last \in Range(init) THEN init ELSE Append(init, last)

\* ------------------------------------------------------------ the store

\* The object store's records in key order: db.getAll (src/services/db.ts:45).
RECURSIVE KeySorted(_)
KeySorted(S) ==
  IF S = {} THEN <<>>
  ELSE LET r == CHOOSE x \in S : \A y \in S : KeyRank(x.id) <= KeyRank(y.id)
       IN <<r>> \o KeySorted(S \ {r})

getAllTestCases(db) == KeySorted(db)

\* A put that adds the record and keeps the one already stored under the key.
PutAppend(db, r) == db \cup {r}

\* IDBObjectStore.put with keyPath 'id': insert, or replace the record with that key.
Put(db, r) == {x \in db : x.id /= r.id} \cup {r}

\* A delete that rejects when the key is not there.
DeleteThrowsIfMissing(db, id) == ~ValidKey(id) \/ \A x \in db : x.id /= id

\* IDBObjectStore.delete throws only for an invalid key, never for a missing one.
deleteThrows(db, id) == ~ValidKey(id)

\* IDBObjectStore.delete: src/services/db.ts:55
Delete(db, id) == {x \in db : x.id /= id}

\* A clear that removes nothing.
ClearNothing(db) == db

\* IDBObjectStore.clear: src/services/db.ts:71
Clear(db) == {}

\* The puts of one readwrite transaction, in order: src/services/db.ts:64
RECURSIVE PutAll(_, _)
PutAll(db, recs) ==
  IF recs = <<>> THEN db ELSE PutAll(Put(db, Head(recs)), Tail(recs))

\* The stable sort of refreshData: src/App.tsx:87 (descending updatedAt).
RECURSIVE InsertByUpdated(_, _)
InsertByUpdated(r, s) ==
  IF s = <<>> THEN <<r>>
  ELSE IF Head(s).updatedAt >= r.updatedAt
       THEN <<Head(s)>> \o InsertByUpdated(r, Tail(s))
       ELSE <<r>> \o s

RECURSIVE SortByUpdatedDesc(_)
SortByUpdatedDesc(s) ==
  IF s = <<>> THEN <<>>
  ELSE InsertByUpdated(s[Len(s)], SortByUpdatedDesc(SubSeq(s, 1, Len(s) - 1)))

\* ----------------------------------------------------------- the schema

\* src/services/db.ts:17
VERSION == 2

\* A database: its version (0 when it does not exist), whether it has the
\* testCases object store, and the names of that store's indexes.
Schema(version, hasStore, indexNames) ==
  [version |-> version, hasStore |-> hasStore, indexNames |-> indexNames]

\* No database yet: a fresh install.
NoDatabase == Schema(0, FALSE, {})

\* The database the VERSION 1 release creates: src/unnamed/part_003:14-27
SchemaV1 == Schema(1, TRUE, {"by-status"})

\* The upgrade callback of initDB: src/services/db.ts:24-37
UpgradedSchema(s) ==
  IF ~s.hasStore
  THEN Schema(VERSION, TRUE, {"by-status", "by-iteration"})
  ELSE Schema(VERSION, TRUE, s.indexNames \cup {"by-iteration"})

\* openDB(DB_NAME, VERSION, {upgrade}): the callback runs when the database
\* is older than VERSION.  src/services/db.ts:23
openDB(s) == IF s.version < VERSION THEN UpgradedSchema(s) ELSE s

\* The database once this release has opened it.
CurrentSchema == Schema(VERSION, TRUE, {"by-status", "by-iteration"})

\* An upgrade that keeps only the records the new index has a key for.
UpgradedRecordsIndexed(s, db) ==
  IF s.hasStore THEN {r \in db : r.iteration /= Absent} ELSE {}

\* The records after the upgrade: the callback takes the object store that
\* is there and adds an index to it; createIndex leaves a record without the
\* key path out of the index and in the store.  src/services/db.ts:30-35
UpgradedRecords(s, db) == IF s.hasStore THEN db ELSE {}

\* -------------------------------------------------------------- records

\* A stored TestCase (src/types.ts:34-45) with the optional failureReason.
\* An import writes no iteration and no failureReason property: Absent.
TestCase(id, title, status, tags, iteration, failureReason, createdAt, updatedAt) ==
  [id |-> id, title |-> title, description |-> "", input |-> "",
   expectedOutput |-> "", status |-> status, tags |-> tags,
   iteration |-> iteration, failureReason |-> failureReason,
   createdAt |-> createdAt, updatedAt |-> updatedAt]

\* ------------------------------------------------------------ JSON text

\* One element of a parsed JSON array.  js is its JSON kind; an element that
\* is not an object has no properties (every property reads undefined).
Elem(js, id, title, status, tags, tagsIsArray, iteration, failureReason, createdAt, updatedAt) ==
  [js |-> js, id |-> id, title |-> title, description |-> "", input |-> "",
   expectedOutput |-> "", status |-> status, tags |-> tags,
   tagsIsArray |-> tagsIsArray, iteration |-> iteration,
   failureReason |-> failureReason, createdAt |-> createdAt,
   updatedAt |-> updatedAt]

\* An item object as an operator writes it: id, title, createdAt, and no more.
Item(id, title, createdAt) ==
  Elem("object", id, title, Absent, <<>>, FALSE, Absent, Absent, createdAt, AbsentNum)

\* A JSON value that is not an object: a number, a string, a boolean or null.
Scalar(js) ==
  Elem(js, Absent, Absent, Absent, <<>>, FALSE, Absent, Absent, AbsentNum, AbsentNum)

\* An item object that carries tags, a status, an input and an expectedOutput
\* of some JSON kind.
FieldItem(id, tags, tagsIsArray, status, input, expectedOutput) ==
  [Item(id, "Login", AbsentNum) EXCEPT
     !.tags = tags, !.tagsIsArray = tagsIsArray, !.status = status,
     !.input = input, !.expectedOutput = expectedOutput]

\* A text: blank, not JSON, or JSON whose value is an array (top = "array")
\* or a single value (top = "single", elems holding that value).
Text(syntax, top, elems) == [syntax |-> syntax, top |-> top, elems |-> elems]

EmptyText == Text("blank", "single", <<>>)

InvalidText == Text("invalid", "single", <<>>)

JsonArray(elems) == Text("json", "array", elems)

JsonSingle(e) == Text("json", "single", <<e>>)

\* JSON.stringify of one stored record: a property that is undefined is
\* left out, so it reads undefined again after JSON.parse.
RecordToJson(r) ==
  [js |-> "object", id |-> r.id, title |-> r.title,
   description |-> r.description, input |-> r.input,
   expectedOutput |-> r.expectedOutput, status |-> r.status,
   tags |-> r.tags, tagsIsArray |-> TRUE, iteration |-> r.iteration,
   failureReason |-> r.failureReason, createdAt |-> r.createdAt,
   updatedAt |-> r.updatedAt]

\* JSON.stringify(testCases, null, 2): src/components/JsonManager.tsx:197
JSONstringify(cases) ==
  JsonArray([i \in 1..Len(cases) |-> RecordToJson(cases[i])])

\* `!importText.trim()`: src/components/JsonManager.tsx:42
TextIsBlank(text) == text.syntax = "blank"

\* JSON.parse throws a SyntaxError: src/components/JsonManager.tsx:44
ParseThrows(text) == text.syntax /= "json"

\* `Array.isArray(parsed) ? parsed : [parsed]`: src/components/JsonManager.tsx:45
ParsedArray(text) == text.elems

\* globalTags.split(',').map(trim).filter(Boolean): src/components/JsonManager.tsx:48
ExtraTags(gtags) == TrimFilter(gtags)

\* A validation that looks at objects only and lets every other value through.
ItemThrowsObjectsOnly(e) == e.js = "object" /\ ~Truthy(e.title)

\* The map callback throws for this item: reading .title of null is a
\* TypeError, and `!item.title` throws the missing-title error.
\* src/components/JsonManager.tsx:52
ItemThrows(e) == e.js = "null" \/ ~Truthy(e.title)

\* A validation that looks at the first item only.
ValidationThrowsFirstOnly(elems) == elems /= <<>> /\ ItemThrows(elems[1])

\* array.map throws when its callback throws for any item.
ValidationThrows(elems) == \E i \in 1..Len(elems) : ItemThrows(elems[i])

\* The number of crypto.randomUUID() calls for the items before index i.
UuidsBefore(elems, i) == Cardinality({j \in 1..(i - 1) : ~Truthy(elems[j].id)})

UuidsNeeded(elems) == UuidsBefore(elems, Len(elems) + 1)

\* input and expectedOutput: src/components/JsonManager.tsx:62-63
ImportField(v) ==
  IF TypeofObject(v) THEN StringifyValue(v)
  ELSE IF Truthy(v) THEN v ELSE ""

\* An import that stores the status the item carries.
ImportStatusAsGiven(st) == st

\* status: src/components/JsonManager.tsx:64
ImportStatus(st) == IF st \in TestStatus THEN st ELSE "DRAFT"

\* An import that takes the tags as they come.
DedupKeepAll(s) == s

\* `Array.from(new Set([...existingTags, ...extraTags]))`:
\* src/components/JsonManager.tsx:56
FinalTags(s) == Dedup(s)

\* An import that stamps every record with the time of the import.
ImportCreatedAtNow(e, t) == t

\* `item.createdAt || Date.now()`: src/components/JsonManager.tsx:66
ImportCreatedAt(e, t) == IF TruthyNum(e.createdAt) THEN e.createdAt ELSE t

\* The record handleImport builds from one item: src/components/JsonManager.tsx:54-68
ImportRecord(e, extra, uuid, t) ==
  LET existingTags == IF e.tagsIsArray THEN e.tags ELSE <<>>
      finalTags == FinalTags(existingTags \o extra)
  IN [id |-> IF Truthy(e.id) THEN e.id ELSE uuid,
      title |-> e.title,
      description |-> IF Truthy(e.description) THEN e.description ELSE "",
      input |-> ImportField(e.input),
      expectedOutput |-> ImportField(e.expectedOutput),
      status |-> ImportStatus(e.status),
      tags |-> finalTags,
      iteration |-> Absent,
      failureReason |-> Absent,
      createdAt |-> ImportCreatedAt(e, t),
      updatedAt |-> t]

\* validatedCases: src/components/JsonManager.tsx:51-69.  used is the number
\* of UUIDs drawn before the call; both Date.now() calls of an item read t.
ValidatedCases(elems, gtags, used, t) ==
  [i \in 1..Len(elems) |->
     ImportRecord(elems[i], ExtraTags(gtags),
                  UuidNames[used + UuidsBefore(elems, i) + 1], t)]

\* The index of the first record store.put throws a DataError for (its id is
\* not a valid key), or 0: src/services/db.ts:64
FirstBadKey(recs) ==
  IF \A i \in 1..Len(recs) : ValidKey(recs[i].id) THEN 0
  ELSE CHOOSE i \in 1..Len(recs) :
         /\ ~ValidKey(recs[i].id)
         /\ \A j \in 1..(i - 1) : ValidKey(recs[j].id)

\* ---------------------------------------------------------------- inputs

\* What the operator pastes into the import box.
ImportTexts ==
  { EmptyText,
    InvalidText,
    JsonSingle(Item("a", "Login", AbsentNum)),
    JsonArray(<<Item(Absent, "Login", 0)>>),
    JsonArray(<<Item("a", "  ", FutureTime)>>),
    JsonArray(<<Item("b", "Login", AbsentNum), Item("a", Absent, AbsentNum)>>),
    JsonArray(<<Item("b", "Login", AbsentNum), Item(JsTrue, "Login", AbsentNum)>>),
    JsonSingle(Scalar("number")),
    JsonSingle(Scalar("boolean")),
    JsonArray(<<Item("b", "Login", AbsentNum), Scalar("string")>>),
    JsonArray(<<Scalar("null")>>) }

\* Texts whose items carry tags, a status, an input and an expectedOutput:
\* tags with a repeated entry, tags that are no array, a status that is
\* missing, misspelt or valid, and values of every JSON kind.
FieldTexts ==
  { JsonSingle(FieldItem("a", <<"a", "a", "b">>, TRUE, Absent, Absent, JsObject)),
    JsonSingle(FieldItem("a", <<>>, FALSE, "passing", JsNumber, "x")),
    JsonSingle(FieldItem("b", <<"b">>, TRUE, "SKIPPED", JsNull, JsTrue)) }

\* Batches that are imported more than once: an item with an id and a
\* createdAt beside an item with neither, and a batch that repeats an id,
\* the createdAt of its last item being 0.
BatchTexts ==
  { JsonArray(<<Item("a", "Login", FutureTime), Item(Absent, "Signup", AbsentNum)>>),
    JsonArray(<<Item("b", "Login", FutureTime), Item("b", "Logout", 0)>>) }

\* The global-tags box, split at its commas: "", " smoke," and "b,b".
GlobalTagInputs == { <<"">>, <<" smoke", "">>, <<"b", "b">> }

\* What the operator types into the form's title and version fields.
FormTitles == {"  ", "Login"}

FormIterations == {"", "v2", "ALL"}

\* What the operator types into the form's tag field before Enter.
FormTagInputs == {" smoke", "b", "  "}

\* The status buttons the operator presses.
FormStatuses == {"DRAFT", "PASSING"}

\* ------------------------------------------------------------------ state

VARIABLES
  store,            \* the testCases object store: a set of records
  schema,           \* the database: its version, object store and indexes
  dbFault,          \* the storage engine rejects the request it runs next
  pending,          \* store requests in flight, in the order they were made
  now,              \* Date.now()
  uuids,            \* crypto.randomUUID() calls so far
  testCases,        \* App: the in-memory record list
  loading,          \* App: loading
  iterationFilter,  \* App: iterationFilter
  searchQuery,      \* App: searchQuery
  selectedTags,     \* App: selectedTags
  statusFilter,     \* App: statusFilter
  viewMode,         \* App: viewMode
  isFormOpen,       \* App: isFormOpen
  editingCase,      \* App: editingCase (<<>> for null)
  formData,         \* TestForm: formData
  formError,        \* TestForm: error
  showJsonManager,  \* App: showJsonManager
  importText,       \* JsonManager: importText
  globalTags,       \* JsonManager: globalTags
  importError,      \* JsonManager: error
  successMsg,       \* JsonManager: successMsg
  confirmConfig,    \* App: confirmConfig (isOpen, and what its action does)
  isConfirming      \* App: isConfirming

dbVars == <<store, schema, dbFault, pending>>

envVars == <<now, uuids>>

\* The filters of the list view and the view switch.
filterVars == <<searchQuery, selectedTags, statusFilter, viewMode>>

appVars == <<testCases, loading, iterationFilter, filterVars>>

formVars == <<isFormOpen, editingCase, formData, formError>>

jsonVars == <<showJsonManager, importText, globalTags, importError, successMsg>>

confirmVars == <<confirmConfig, isConfirming>>

vars == <<store, schema, dbFault, pending, now, uuids, testCases, loading,
          iterationFilter, searchQuery, selectedTags, statusFilter, viewMode,
          isFormOpen, editingCase, formData, formError,
          showJsonManager, importText, globalTags, importError, successMsg,
          confirmConfig, isConfirming>>

NoError == "<null>"

\* A request in flight and the flow that awaits it.  seen is history: the
\* store values since the flow's write was committed.
Task(flow, op, recs, id, mounted, seen) ==
  [flow |-> flow, op |-> op, recs |-> recs, id |-> id, mounted |-> mounted,
   seen |-> seen]

\* The getAll of refreshData: src/App.tsx:85
ReloadTask(flow, mounted, db) == Task(flow, "getAll", <<>>, Absent, mounted, {db})

\* useState of TestForm: src/components/TestForm.tsx:23-32
InitialFormData ==
  [title |-> "", description |-> "", input |-> "", expectedOutput |-> "",
   status |-> "DRAFT", failureReason |-> "", tags |-> <<>>, iteration |-> ""]

\* useState of confirmConfig: src/App.tsx:67-79.  A closed dialog renders
\* nothing and its action cannot be run (src/components/ui/ConfirmDialog.tsx:24),
\* so closing it (`{...prev, isOpen: false}`) is written as this value.
ClosedConfirm == [isOpen |-> FALSE, action |-> "none", id |-> Absent]

\* The page is opened on the database a session left behind (its records
\* db, its schema s): the mount effect has called refreshData
\* (src/App.tsx:95-97, 83), whose requests in flight are q.
PageOpened(db, s, q) ==
  /\ store = db
  /\ schema = s
  /\ dbFault = FALSE
  /\ pending = q
  /\ now = 1
  /\ uuids = 0
  /\ testCases = <<>>
  /\ loading = TRUE
  /\ iterationFilter = "ALL"
  /\ searchQuery = ""
  /\ selectedTags = <<>>
  /\ statusFilter = "ALL"
  /\ viewMode = "list"
  /\ isFormOpen = FALSE
  /\ editingCase = <<>>
  /\ formData = InitialFormData
  /\ formError = NoError
  /\ showJsonManager = FALSE
  /\ importText = EmptyText
  /\ globalTags = <<"">>
  /\ importError = NoError
  /\ successMsg = NoError
  /\ confirmConfig = ClosedConfirm
  /\ isConfirming = FALSE

\* The page is opened on a database this release has opened before: initDB
\* has nothing to upgrade, and refreshData has made its getAll request
\* (src/App.tsx:85).
Mounted(db) == PageOpened(db, CurrentSchema, <<ReloadTask("mount", TRUE, db)>>)

\* A fresh install: the store is empty.
InitFresh == Mounted({})

\* A case an earlier session saved through the form: handleSubmit gave it an
\* iteration and a failureReason (src/components/TestForm.tsx:86-92).
FormSavedCase == TestCase("a", "Login", "FAILING", <<>>, "v1.0", "flaky", 1, 1)

\* The page is opened on a fresh install, or on a store that holds one case
\* saved through the form.
Init == InitFresh \/ Mounted({FormSavedCase})

\* ------------------------------------------------------------ environment

\* The clock advances.
Tick ==
  /\ now < MaxClock
  /\ now' = now + 1
  /\ UNCHANGED <<schema, store, dbFault, pending, uuids, appVars, formVars, jsonVars,
                 confirmVars>>

\* The storage engine starts to reject requests (quota, a closed connection).
StorageFails ==
  /\ ~dbFault
  /\ dbFault' = TRUE
  /\ UNCHANGED <<schema, store, pending, envVars, appVars, formVars, jsonVars, confirmVars>>

StorageRecovers ==
  /\ dbFault
  /\ dbFault' = FALSE
  /\ UNCHANGED <<schema, store, pending, envVars, appVars, formVars, jsonVars, confirmVars>>

\* --------------------------------------------------------- derived views

\* An iteration read as it is stored.
IterationAsStored(r) == r.iteration

\* `tc.iteration || 'Unassigned'`: src/App.tsx:161, 198
NormIteration(r) == IF Truthy(r.iteration) THEN r.iteration ELSE "Unassigned"

\* uniqueIterations: src/App.tsx:158-164
uniqueIterations == {NormIteration(testCases[i]) : i \in 1..Len(testCases)}

\* The cards of the list view, with no search text, tag or status selected:
\* src/App.tsx:186-203
MatchesIteration(r) ==
  iterationFilter = "ALL" \/ NormIteration(r) = iterationFilter

\* String.prototype.toLowerCase on the strings the model uses.
ToLower(str) ==
  CASE str = "Login" -> "login"
    [] str = "Logout" -> "logout"
    [] str = "Signup" -> "signup"
    [] str = "Export" -> "export"
    [] str = "LOGIN page" -> "login page"
    [] str = "LOG" -> "log"
    [] OTHER -> str

\* String.prototype.includes on the lower-case strings the model uses.
Includes(hay, needle) ==
  \/ needle = ""
  \/ needle = hay
  \/ <<hay, needle>> \in {<<"login", "log">>, <<"logout", "log">>,
                          <<"login page", "log">>, <<"login page", "login">>}

\* matchesSearch: src/App.tsx:188-191
matchesSearch(tc) ==
  \/ ~Truthy(searchQuery)
  \/ Includes(ToLower(tc.title), ToLower(searchQuery))
  \/ Includes(ToLower(IF Truthy(tc.description) THEN tc.description ELSE ""),
              ToLower(searchQuery))

\* A tag filter that a case passes when it has any one of the selected tags.
matchesTagsAny(tc) ==
  Len(selectedTags) = 0 \/ \E t \in Range(selectedTags) : t \in Range(tc.tags)

\* matchesTags: src/App.tsx:193-194
matchesTags(tc) ==
  Len(selectedTags) = 0 \/ \A t \in Range(selectedTags) : t \in Range(tc.tags)

\* matchesStatus: src/App.tsx:196
matchesStatus(tc) == statusFilter = "ALL" \/ tc.status = statusFilter

\* The filter callback of listFilteredCases: src/App.tsx:187-202
MatchesList(tc) ==
  matchesSearch(tc) /\ matchesTags(tc) /\ matchesStatus(tc) /\ MatchesIteration(tc)

\* listFilteredCases: src/App.tsx:186-203
listFilteredCases == SelectSeq(testCases, MatchesList)

\* reportFilteredCases: src/App.tsx:205-210
reportFilteredCases == SelectSeq(testCases, MatchesIteration)

\* uniqueTags: src/App.tsx:167-175
uniqueTags == UNION {Range(testCases[i].tags) : i \in 1..Len(testCases)}

\* `cases.filter(t => t.status === st).length`
CountStatus(cases, st) == Cardinality({i \in 1..Len(cases) : cases[i].status = st})

\* Counts taken over every loaded case.
StatsOverAll(filtered, all) == all

\* The list the toolbar's counts are taken over: src/App.tsx:214-217
StatsSource(filtered, all) == filtered

\* stats of App, shown in the list view's toolbar: src/App.tsx:212-219, 411-414
stats ==
  LET cases == StatsSource(listFilteredCases, testCases)
  IN [total |-> Len(cases),
      passing |-> CountStatus(cases, "PASSING"),
      failing |-> CountStatus(cases, "FAILING"),
      draft |-> CountStatus(cases, "DRAFT")]

\* stats of ReportDashboard over the testCases prop it is given:
\* src/types.ts:76-86, src/App.tsx:391-394
reportStats ==
  LET cases == reportFilteredCases
  IN [total |-> Len(cases),
      passing |-> CountStatus(cases, "PASSING"),
      failing |-> CountStatus(cases, "FAILING"),
      skipped |-> CountStatus(cases, "SKIPPED"),
      draft |-> CountStatus(cases, "DRAFT")]

\* The version badge of a card: src/App.tsx:450-452
CardIterationLabel(tc) == IF Truthy(tc.iteration) THEN tc.iteration ELSE "v1.0"

\* A modal overlay (the form, the confirm dialog) covers the page.
ModalOpen == isFormOpen \/ confirmConfig.isOpen

\* The card grid is rendered: src/App.tsx:382, 390, 421
CardsShown == ~showJsonManager /\ viewMode = "list" /\ ~loading /\ ~ModalOpen

\* The iteration buttons of the sidebar: src/App.tsx:286, 299
SetIterationFilter ==
  /\ ~ModalOpen
  /\ \E f \in {"ALL"} \cup uniqueIterations :
       /\ f /= iterationFilter
       /\ iterationFilter' = f
  /\ UNCHANGED <<dbVars, envVars, testCases, loading, filterVars, formVars,
                 jsonVars, confirmVars>>

\* What the operator types into the search box.
SearchTexts == {"", "LOG", "login", "zzz"}

\* The search box of the list view's toolbar: src/App.tsx:403-405
SetSearchQuery ==
  /\ ~showJsonManager /\ viewMode = "list" /\ ~ModalOpen
  /\ \E q \in SearchTexts :
       /\ q /= searchQuery
       /\ searchQuery' = q
  /\ UNCHANGED <<dbVars, envVars, testCases, loading, iterationFilter, selectedTags,
                 statusFilter, viewMode, formVars, jsonVars, confirmVars>>

\* toggleTag: src/App.tsx:177-183
toggleTag(tags, tag) ==
  IF tag \in Range(tags) THEN SelectSeq(tags, LAMBDA t : t /= tag)
  ELSE Append(tags, tag)

\* The tag buttons of the sidebar: src/App.tsx:343, 354-357
ToggleTag ==
  /\ viewMode = "list" /\ ~ModalOpen
  /\ \E tag \in uniqueTags : selectedTags' = toggleTag(selectedTags, tag)
  /\ UNCHANGED <<dbVars, envVars, testCases, loading, iterationFilter, searchQuery,
                 statusFilter, viewMode, formVars, jsonVars, confirmVars>>

\* The status buttons of the sidebar: src/App.tsx:314-327
SetStatusFilter ==
  /\ viewMode = "list" /\ ~ModalOpen
  /\ \E f \in {"ALL"} \cup TestStatus :
       /\ f /= statusFilter
       /\ statusFilter' = f
  /\ UNCHANGED <<dbVars, envVars, testCases, loading, iterationFilter, searchQuery,
                 selectedTags, viewMode, formVars, jsonVars, confirmVars>>

\* The Cards and Metrics buttons of the sidebar: src/App.tsx:268, 274
SetViewMode ==
  /\ ~ModalOpen
  /\ viewMode' = IF viewMode = "list" THEN "report" ELSE "list"
  /\ UNCHANGED <<dbVars, envVars, testCases, loading, iterationFilter, searchQuery,
                 selectedTags, statusFilter, formVars, jsonVars, confirmVars>>

\* -------------------------------------------------------------- the form

\* The effect of TestForm for a new case: src/components/TestForm.tsx:51-60
NewFormData ==
  [InitialFormData EXCEPT
     !.iteration = IF iterationFilter /= "ALL" THEN iterationFilter ELSE "v1.0"]

\* The effect of TestForm for an existing case: src/components/TestForm.tsx:39-48
EditFormData(tc) ==
  [title |-> tc.title, description |-> tc.description, input |-> tc.input,
   expectedOutput |-> tc.expectedOutput, status |-> tc.status,
   failureReason |-> IF Truthy(tc.failureReason) THEN tc.failureReason ELSE "",
   tags |-> tc.tags,
   iteration |-> IF Truthy(tc.iteration) THEN tc.iteration ELSE "Unassigned"]

\* The version field of the form in its read-only view:
\* src/components/TestForm.tsx:239
FormIterationLabel(data) ==
  IF Truthy(data.iteration) THEN data.iteration ELSE "Unassigned"

\* The Create Case button: src/App.tsx:246-249, and the form's effect.
OpenCreateForm ==
  /\ ~ModalOpen
  /\ isFormOpen' = TRUE
  /\ editingCase' = <<>>
  /\ formData' = NewFormData
  /\ formError' = NoError
  /\ UNCHANGED <<dbVars, envVars, appVars, jsonVars, confirmVars>>

\* A click on a card: src/App.tsx:439-442, and the form's effect.
OpenEditForm ==
  /\ CardsShown
  /\ \E i \in 1..Len(testCases) :
       /\ MatchesList(testCases[i])
       /\ editingCase' = <<testCases[i]>>
       /\ formData' = EditFormData(testCases[i])
  /\ isFormOpen' = TRUE
  /\ formError' = NoError
  /\ UNCHANGED <<dbVars, envVars, appVars, jsonVars, confirmVars>>

\* onClose (Discard, the X, Escape): src/App.tsx:509-512.  The form's effect
\* clears its error; formData is dead until the next open overwrites it, and
\* is put back to its initial value here.
CloseForm ==
  /\ isFormOpen
  /\ isFormOpen' = FALSE
  /\ editingCase' = <<>>
  /\ formData' = InitialFormData
  /\ formError' = NoError
  /\ UNCHANGED <<dbVars, envVars, appVars, jsonVars, confirmVars>>

\* The title input: src/components/TestForm.tsx:184
SetFormTitle ==
  /\ isFormOpen
  /\ \E t \in FormTitles :
       /\ t /= formData.title
       /\ formData' = [formData EXCEPT !.title = t]
  /\ UNCHANGED <<dbVars, envVars, appVars, isFormOpen, editingCase, formError,
                 jsonVars, confirmVars>>

\* The version input: src/components/TestForm.tsx:234
SetFormIteration ==
  /\ isFormOpen
  /\ \E v \in FormIterations :
       /\ v /= formData.iteration
       /\ formData' = [formData EXCEPT !.iteration = v]
  /\ UNCHANGED <<dbVars, envVars, appVars, isFormOpen, editingCase, formError,
                 jsonVars, confirmVars>>

\* setStatus: src/components/TestForm.tsx:114-116
SetStatus ==
  /\ isFormOpen
  /\ \E st \in FormStatuses :
       /\ st /= formData.status
       /\ formData' = [formData EXCEPT !.status = st]
  /\ UNCHANGED <<dbVars, envVars, appVars, isFormOpen, editingCase, formError,
                 jsonVars, confirmVars>>

\* `tags.includes(t) ? tags : [...tags, t]`: src/components/TestForm.tsx:103-105
AddTag(tags, t) == IF t \in Range(tags) THEN tags ELSE Append(tags, t)

\* handleAddTag, Enter in the tag field: src/components/TestForm.tsx:100-108
HandleAddTag ==
  /\ isFormOpen
  /\ \E typed \in FormTagInputs :
       /\ Truthy(Trim(typed))
       /\ formData' = [formData EXCEPT !.tags = AddTag(@, Trim(typed))]
  /\ UNCHANGED <<dbVars, envVars, appVars, isFormOpen, editingCase, formError,
                 jsonVars, confirmVars>>

\* `!formData.title.trim()`: src/components/TestForm.tsx:79
TitleMissing(title) == ~Truthy(Trim(title))

\* A save that stamps createdAt anew on every submit.
SubmitCreatedAtNow(initial, t) == t

\* `initialData ? initialData.createdAt : now`: src/components/TestForm.tsx:90
SubmitCreatedAt(initial, t) == IF initial /= <<>> THEN initial[1].createdAt ELSE t

\* The record handleSubmit builds: src/components/TestForm.tsx:85-92
SubmitRecord(initial, data, uuid, t) ==
  [id |-> IF initial /= <<>> THEN initial[1].id ELSE uuid,
   title |-> data.title,
   description |-> data.description,
   input |-> data.input,
   expectedOutput |-> data.expectedOutput,
   status |-> data.status,
   failureReason |-> data.failureReason,
   tags |-> data.tags,
   iteration |-> IF Truthy(Trim(data.iteration)) THEN Trim(data.iteration)
                 ELSE "Unassigned",
   createdAt |-> SubmitCreatedAt(initial, t),
   updatedAt |-> t]

\* handleSubmit up to its await: src/components/TestForm.tsx:75-93, with
\* handleSave's call of saveTestCase (src/App.tsx:100, src/services/db.ts:48-51).
\* At most pcap requests are in flight and ucap UUIDs drawn.
SubmitWithin(pcap, ucap) ==
  /\ IF TitleMissing(formData.title)
     THEN /\ formError' = "Title is required"
          /\ UNCHANGED <<pending, uuids>>
     ELSE /\ Len(pending) < pcap
          /\ editingCase = <<>> => uuids < ucap
          /\ formError' = NoError
          /\ uuids' = IF editingCase = <<>> THEN uuids + 1 ELSE uuids
          /\ pending' = Append(pending,
               Task("save", "put",
                    <<SubmitRecord(editingCase, formData, UuidNames[uuids + 1], now)>>,
                    Absent, TRUE, {}))
  /\ UNCHANGED <<schema, store, dbFault, now, appVars, isFormOpen, editingCase, formData,
                 jsonVars, confirmVars>>

\* The submit button of the rendered form: src/App.tsx:507,
\* src/components/TestForm.tsx:381-389
HandleSubmit ==
  /\ isFormOpen
  /\ SubmitWithin(MaxPending, MaxUuid)

\* handleSubmit awaits onSave: a save of the form is in flight, its put or
\* the reload after it.  src/components/TestForm.tsx:93, src/App.tsx:100-101
SaveInFlight == \E i \in 1..Len(pending) : pending[i].flow = "save"

\* The submit button pressed again while the save is in flight: the form
\* stays open and the button enabled until onSave returns
\* (src/components/TestForm.tsx:93-94, 381-389).
HandleResubmit ==
  /\ isFormOpen
  /\ SaveInFlight
  /\ SubmitWithin(MaxPending + MaxResubmit, MaxUuid + MaxResubmit)

\* ------------------------------------------------------ the JSON manager

\* The JsonManager instance is unmounted: the requests its handleImport
\* awaits outlive it, and what they set afterwards is set on no component.
Unmounted(q) ==
  [i \in 1..Len(q) |->
     IF q[i].flow = "import" THEN [q[i] EXCEPT !.mounted = FALSE] ELSE q[i]]

\* The Data Operations button (src/App.tsx:239) and the manager's Cancel and
\* Close (src/App.tsx:387): the manager is mounted with fresh state
\* (src/components/JsonManager.tsx:30-34) or unmounted.
ToggleJsonManager ==
  /\ ~ModalOpen
  /\ showJsonManager' = ~showJsonManager
  /\ importText' = EmptyText
  /\ globalTags' = <<"">>
  /\ importError' = NoError
  /\ successMsg' = NoError
  /\ pending' = IF showJsonManager THEN Unmounted(pending) ELSE pending
  /\ UNCHANGED <<schema, store, dbFault, envVars, appVars, formVars, confirmVars>>

\* The import box (src/components/JsonManager.tsx:162): a typed text, or the
\* text of the export box (src/components/JsonManager.tsx:197) pasted back.
SetImportText ==
  /\ showJsonManager /\ ~ModalOpen
  /\ \E text \in ImportTexts \cup {JSONstringify(testCases)} :
       /\ text /= importText
       /\ importText' = text
  /\ UNCHANGED <<dbVars, envVars, appVars, formVars, showJsonManager, globalTags,
                 importError, successMsg, confirmVars>>

\* The import box, given a text whose items carry every field.
PasteFieldText ==
  /\ showJsonManager /\ ~ModalOpen
  /\ \E text \in FieldTexts :
       /\ text /= importText
       /\ importText' = text
  /\ UNCHANGED <<dbVars, envVars, appVars, formVars, showJsonManager, globalTags,
                 importError, successMsg, confirmVars>>

\* The import box, given a batch that is imported more than once.
PasteBatchText ==
  /\ showJsonManager /\ ~ModalOpen
  /\ \E text \in BatchTexts :
       /\ text /= importText
       /\ importText' = text
  /\ UNCHANGED <<dbVars, envVars, appVars, formVars, showJsonManager, globalTags,
                 importError, successMsg, confirmVars>>

\* The global tags box: src/components/JsonManager.tsx:176
SetGlobalTags ==
  /\ showJsonManager /\ ~ModalOpen
  /\ \E g \in GlobalTagInputs :
       /\ g /= globalTags
       /\ globalTags' = g
  /\ UNCHANGED <<dbVars, envVars, appVars, formVars, showJsonManager, importText,
                 importError, successMsg, confirmVars>>

\* The try block of handleImport throws before onImport is called:
\* src/components/JsonManager.tsx:42-52
ImportThrows(text) ==
  \/ TextIsBlank(text)
  \/ ParseThrows(text)
  \/ ValidationThrows(ParsedArray(text))

\* The puts bulkImportTestCases requests before store.put throws, if it
\* does: src/services/db.ts:63-66.  A put whose record has no valid key throws
\* a DataError out of the map; the transaction is not aborted, and commits
\* the puts requested before it.
BulkRequests(recs) ==
  IF FirstBadKey(recs) = 0 THEN recs ELSE SubSeq(recs, 1, FirstBadKey(recs) - 1)

\* handleImport up to its await (src/components/JsonManager.tsx:37-71), with
\* handleBulkImport's call of bulkImportTestCases (src/App.tsx:152,
\* src/services/db.ts:58-66).  At most ucap UUIDs are drawn.
ImportWithin(ucap) ==
  /\ successMsg' = NoError
  /\ IF ImportThrows(importText)
     THEN /\ importError' = "Invalid JSON"
          /\ UNCHANGED <<pending, uuids>>
     ELSE LET elems == ParsedArray(importText)
              recs == ValidatedCases(elems, globalTags, uuids, now)
          IN /\ Len(pending) < MaxPending
             /\ uuids + UuidsNeeded(elems) <= ucap
             /\ uuids' = uuids + UuidsNeeded(elems)
             /\ IF FirstBadKey(recs) = 0
                THEN /\ importError' = NoError
                     /\ pending' = Append(pending,
                          Task("import", "bulk", BulkRequests(recs), Absent, TRUE, {}))
                ELSE \* bulkImportTestCases rejects at once; its transaction lives on
                     /\ importError' = "Invalid JSON"
                     /\ pending' = Append(pending,
                          Task("orphan", "bulk", BulkRequests(recs), Absent, FALSE, {}))
  /\ UNCHANGED <<schema, store, dbFault, now, appVars, formVars, showJsonManager,
                 importText, globalTags, confirmVars>>

\* The Import button of the open panel: src/components/JsonManager.tsx:180-186
HandleImport ==
  /\ showJsonManager /\ ~ModalOpen
  /\ ImportWithin(MaxUuid)

\* The Import button in a session that imports a text more than once.
HandleReimport ==
  /\ showJsonManager /\ ~ModalOpen
  /\ ImportWithin(MaxUuid + MaxReimport)

\* ---------------------------------------------------- the confirm dialog

\* handleDeleteClick(id): `if (!id) return`, else the dialog is opened with
\* an action that deletes the id.  src/App.tsx:110-125
DeleteDialog(cfg, id) ==
  IF ~Truthy(id) THEN cfg ELSE [isOpen |-> TRUE, action |-> "delete", id |-> id]

\* The trash button of a card: src/App.tsx:106-126, 479
HandleDeleteClick ==
  /\ CardsShown
  /\ \E i \in 1..Len(testCases) :
       /\ MatchesList(testCases[i])
       /\ confirmConfig' = DeleteDialog(confirmConfig, testCases[i].id)
  /\ UNCHANGED <<dbVars, envVars, appVars, formVars, jsonVars, isConfirming>>

\* The Clear Database button of the sidebar: src/App.tsx:128-139, 373
HandleClearDbClick ==
  /\ ~ModalOpen
  /\ confirmConfig' = [isOpen |-> TRUE, action |-> "clear", id |-> Absent]
  /\ UNCHANGED <<dbVars, envVars, appVars, formVars, jsonVars, isConfirming>>

\* Cancel: src/App.tsx:525, enabled while not confirming
\* (src/components/ui/ConfirmDialog.tsx:39)
CancelConfirm ==
  /\ confirmConfig.isOpen /\ ~isConfirming
  /\ confirmConfig' = ClosedConfirm
  /\ UNCHANGED <<dbVars, envVars, appVars, formVars, jsonVars, isConfirming>>

\* A confirmation that runs the clear-all action whatever the dialog says.
ConfirmedTaskClear(cfg) == Task("clear", "clear", <<>>, Absent, TRUE, {})

\* `confirmConfig.action()` up to its first await: the request the action
\* of the open dialog makes.  src/App.tsx:144, 117-119, 134-135
ConfirmedTask(cfg) ==
  IF cfg.action = "delete"
  THEN Task("delete", "delete", <<>>, cfg.id, TRUE, {})
  ELSE Task("clear", "clear", <<>>, Absent, TRUE, {})

\* Confirm: executeConfirmAction up to the await of the action's first
\* request (src/App.tsx:141-144, 117-119, 134-135).
ExecuteConfirmAction ==
  /\ confirmConfig.isOpen /\ ~isConfirming
  /\ Len(pending) < MaxPending
  /\ isConfirming' = TRUE
  /\ pending' = Append(pending, ConfirmedTask(confirmConfig))
  /\ UNCHANGED <<schema, store, dbFault, envVars, appVars, formVars, jsonVars, confirmConfig>>

\* ------------------------------------------------- the requests complete

\* IndexedDB runs transactions whose scopes overlap in the order they were
\* created; every request here is on the one object store, so the requests
\* in flight complete first to last.
Head1 == pending[1]

\* The store takes a new value: the flows awaiting their reload have seen it.
Witnessed(q, db) ==
  [i \in 1..Len(q) |->
     IF q[i].op = "getAll" THEN [q[i] EXCEPT !.seen = @ \cup {db}] ELSE q[i]]

\* refreshData up to its await (src/App.tsx:83-85): the flow's next request.
AwaitReload(db) ==
  Append(Witnessed(Tail(pending), db), ReloadTask(Head1.flow, Head1.mounted, db))

\* db.put of saveTestCase completes: src/services/db.ts:50.  handleSave goes on
\* to refreshData (src/App.tsx:101); a rejection reaches handleSubmit's catch
\* (src/components/TestForm.tsx:95-97).
PutDone ==
  /\ pending /= <<>> /\ Head1.op = "put"
  /\ IF dbFault
     THEN /\ formError' = "Failed to save test case."
          /\ pending' = Tail(pending)
          /\ UNCHANGED <<store, loading>>
     ELSE /\ store' = Put(store, Head1.recs[1])
          /\ loading' = TRUE
          /\ pending' = AwaitReload(store')
          /\ UNCHANGED formError
  /\ UNCHANGED <<schema, dbFault, envVars, testCases, iterationFilter, filterVars,
                 isFormOpen, editingCase, formData, jsonVars, confirmVars>>

\* The transaction of bulkImportTestCases commits every put it was given.
CommitBulk(db, recs) == PutAll(db, recs)

\* The transaction of bulkImportTestCases completes: src/services/db.ts:63-66.
\* It commits all its puts or, a request failing, aborts with none applied.
\* handleBulkImport goes on to refreshData (src/App.tsx:153); a rejection
\* reaches handleImport's catch (src/components/JsonManager.tsx:75-77).
BulkDone ==
  /\ pending /= <<>> /\ Head1.op = "bulk"
  /\ IF dbFault
     THEN /\ pending' = Tail(pending)
          /\ importError' = IF Head1.mounted THEN "Invalid JSON" ELSE importError
          /\ UNCHANGED <<store, loading>>
     ELSE /\ store' = CommitBulk(store, Head1.recs)
          /\ IF Head1.flow = "orphan"
             THEN /\ pending' = Witnessed(Tail(pending), store')
                  /\ UNCHANGED loading
             ELSE /\ pending' = AwaitReload(store')
                  /\ loading' = TRUE
          /\ UNCHANGED importError
  /\ UNCHANGED <<schema, dbFault, envVars, testCases, iterationFilter, filterVars, formVars,
                 showJsonManager, importText, globalTags, successMsg, confirmVars>>

\* The finally of executeConfirmAction: src/App.tsx:145-148
ConfirmFinally ==
  /\ isConfirming' = FALSE
  /\ confirmConfig' = ClosedConfirm

\* db.delete of deleteTestCase completes: src/services/db.ts:55.  The action
\* goes on to refreshData (src/App.tsx:120); a rejection is logged by its
\* catch (src/App.tsx:121-123) and the dialog closes.
DeleteDone ==
  /\ pending /= <<>> /\ Head1.op = "delete"
  /\ IF dbFault \/ deleteThrows(store, Head1.id)
     THEN /\ pending' = Tail(pending)
          /\ ConfirmFinally
          /\ UNCHANGED <<store, loading>>
     ELSE /\ store' = Delete(store, Head1.id)
          /\ loading' = TRUE
          /\ pending' = AwaitReload(store')
          /\ UNCHANGED confirmVars
  /\ UNCHANGED <<schema, dbFault, envVars, testCases, iterationFilter, filterVars,
                 formVars, jsonVars>>

\* db.clear of clearAllTestCases completes: src/services/db.ts:71.  The action
\* goes on to refreshData (src/App.tsx:136); a rejection leaves
\* executeConfirmAction through its finally, caught by nothing.
ClearDone ==
  /\ pending /= <<>> /\ Head1.op = "clear"
  /\ IF dbFault
     THEN /\ pending' = Tail(pending)
          /\ ConfirmFinally
          /\ UNCHANGED <<store, loading>>
     ELSE /\ store' = Clear(store)
          /\ loading' = TRUE
          /\ pending' = AwaitReload(store')
          /\ UNCHANGED confirmVars
  /\ UNCHANGED <<schema, dbFault, envVars, testCases, iterationFilter, filterVars,
                 formVars, jsonVars>>

\* openDB of initDB completes (src/services/db.ts:21-41), upgrading a database
\* older than VERSION; getAllTestCases goes on to db.getAll
\* (src/services/db.ts:44-45).  A rejection reaches refreshData's catch and
\* finally (src/App.tsx:88-92).
OpenDone ==
  /\ pending /= <<>> /\ Head1.op = "open"
  /\ IF dbFault
     THEN /\ pending' = Tail(pending)
          /\ loading' = FALSE
          /\ UNCHANGED <<store, schema>>
     ELSE /\ schema' = openDB(schema)
          /\ store' = IF schema.version < VERSION
                       THEN UpgradedRecords(schema, store)
                       ELSE store
          /\ pending' = Append(Tail(pending),
                                ReloadTask(Head1.flow, Head1.mounted, store'))
          /\ UNCHANGED loading
  /\ UNCHANGED <<dbFault, envVars, testCases, iterationFilter, filterVars,
                 formVars, jsonVars, confirmVars>>

\* A reload that keeps the order db.getAll returns.
ReloadedKeyOrder(db, old) == getAllTestCases(db)

\* setTestCases(data.sort(...)): src/App.tsx:85-87
Reloaded(db, old) == SortByUpdatedDesc(getAllTestCases(db))

\* db.getAll of refreshData completes (src/App.tsx:85-92), and the flow that
\* awaited refreshData runs to its end: handleSave and handleSubmit
\* (src/App.tsx:102-103, src/components/TestForm.tsx:94), handleBulkImport and
\* handleImport (src/App.tsx:154, src/components/JsonManager.tsx:72-74), the
\* confirm action (src/App.tsx:145-148).
GetAllDone ==
  /\ pending /= <<>> /\ Head1.op = "getAll"
  /\ pending' = IF Head1.flow = "import" THEN Unmounted(Tail(pending))
                ELSE Tail(pending)
  /\ testCases' = IF dbFault THEN testCases ELSE Reloaded(store, testCases)
  /\ loading' = FALSE
  /\ IF Head1.flow = "save"
     THEN /\ isFormOpen' = FALSE
          /\ editingCase' = <<>>
          /\ formData' = InitialFormData
          /\ formError' = IF isFormOpen THEN NoError ELSE formError
     ELSE UNCHANGED formVars
  /\ IF Head1.flow = "import"
     THEN /\ showJsonManager' = FALSE
          /\ importText' = EmptyText
          /\ globalTags' = <<"">>
          /\ importError' = NoError
          /\ successMsg' = NoError
     ELSE UNCHANGED jsonVars
  /\ IF Head1.flow \in {"delete", "clear"}
     THEN ConfirmFinally
     ELSE UNCHANGED confirmVars
  /\ UNCHANGED <<schema, store, dbFault, envVars, iterationFilter, filterVars>>

\* ---------------------------------------------------------- specification

\* The clock, and the storage engine's faults.
EnvNext ==
  \/ Tick
  \/ StorageFails
  \/ StorageRecovers

\* A session on the list view: cases are created, edited and deleted through
\* the form and the confirm dialog.
Next ==
  \/ EnvNext
  \/ OpenCreateForm
  \/ OpenEditForm
  \/ CloseForm
  \/ SetFormTitle
  \/ SetStatus
  \/ HandleSubmit
  \/ HandleDeleteClick
  \/ HandleClearDbClick
  \/ CancelConfirm
  \/ ExecuteConfirmAction
  \/ PutDone
  \/ DeleteDone
  \/ ClearDone
  \/ GetAllDone

Spec == Init /\ [][Next]_vars

\* A session in the JSON manager: texts are imported and the export is
\* pasted back.
NextImport ==
  \/ EnvNext
  \/ ToggleJsonManager
  \/ SetImportText
  \/ HandleImport
  \/ BulkDone
  \/ GetAllDone

SpecImport == Init /\ [][NextImport]_vars

\* A session that writes every field: items with tags, statuses and values
\* of every kind are imported with global tags, and stored cases are edited
\* through the form.
NextFields ==
  \/ ToggleJsonManager
  \/ PasteFieldText
  \/ SetGlobalTags
  \/ HandleImport
  \/ BulkDone
  \/ OpenEditForm
  \/ CloseForm
  \/ HandleAddTag
  \/ SetStatus
  \/ HandleSubmit
  \/ PutDone
  \/ GetAllDone

SpecFields == Init /\ [][NextFields]_vars

\* A case saved through the form, with a description.
ViewCase(id, title, description, status, tags, iteration) ==
  [TestCase(id, title, status, tags, iteration, "", 1, 1) EXCEPT
     !.description = description]

\* A store earlier sessions left behind: three cases saved through the form
\* (one of them with the version field left blank, stored as "Unassigned")
\* and one imported case, which has no iteration.
ViewStore ==
  { ViewCase("a", "Login", "", "FAILING", <<"a">>, "v1.0"),
    ViewCase("b", "Logout", "", "PASSING", <<"b">>, "v1.0"),
    ViewCase("u1", "Signup", "LOGIN page", "DRAFT", <<"a", "b">>, "Unassigned"),
    TestCase("u2", "Export", "SKIPPED", <<>>, Absent, Absent, 1, 1) }

\* The page is opened on that store, or on its two cases without a version.
InitView ==
  \/ Mounted(ViewStore)
  \/ Mounted({r \in ViewStore : r.iteration /= "v1.0"})

\* A session on the loaded list: the operator searches, filters and switches
\* between the card view and the report.
NextView ==
  \/ GetAllDone
  \/ SetSearchQuery
  \/ ToggleTag
  \/ SetStatusFilter
  \/ SetIterationFilter
  \/ SetViewMode

SpecView == InitView /\ [][NextView]_vars

\* A record the VERSION 1 release wrote: it has no iteration property.
\* src/unnamed/part_001:58-68
V1Case(id, title, status, tags) ==
  TestCase(id, title, status, tags, Absent, Absent, 1, 1)

\* The records a session of the VERSION 1 release left behind.
V1Store ==
  { V1Case("a", "Login", "FAILING", <<"a">>),
    V1Case("b", "Logout", "PASSING", <<>>) }

\* A store this release has written to after its upgrade: the two old
\* records and a case saved through the form into the version v2.
V2Store == V1Store \cup {TestCase("u1", "Signup", "DRAFT", <<"a">>, "v2", "", 1, 1)}

\* The page is opened and initDB's openDB request is in flight
\* (src/App.tsx:95-97, 83-85, src/services/db.ts:44): on a fresh install, on
\* a database of the VERSION 1 release, or on one this release has upgraded.
InitUpgrade ==
  \E d \in { <<{}, NoDatabase>>, <<{}, SchemaV1>>,
              <<{V1Case("b", "Logout", "PASSING", <<>>)}, SchemaV1>>,
              <<V1Store, SchemaV1>>, <<V2Store, CurrentSchema>> } :
    PageOpened(d[1], d[2], <<Task("mount", "open", <<>>, Absent, TRUE, {})>>)

\* The database is opened, the records are loaded and the operator looks
\* at them through the filters of the sidebar.
NextUpgrade ==
  \/ OpenDone
  \/ GetAllDone
  \/ SetIterationFilter
  \/ SetStatusFilter
  \/ ToggleTag
  \/ SetViewMode

SpecUpgrade == InitUpgrade /\ [][NextUpgrade]_vars

\* The record, created at time 0 and last saved at the time given.
SavedAt(r, t) == [r EXCEPT !.createdAt = 0, !.updatedAt = t]

\* A store earlier sessions left behind whose key order is not the order of
\* the last saves: two cases saved at time 0, and a case and an imported
\* case saved at time 1.
BrowseStore ==
  { SavedAt(ViewCase("a", "Login", "", "FAILING", <<"a">>, "v1.0"), 0),
    SavedAt(ViewCase("b", "Logout", "", "PASSING", <<"b">>, "v2"), 1),
    SavedAt(ViewCase("u1", "Signup", "LOGIN page", "DRAFT", <<"a", "b">>, "Unassigned"), 0),
    SavedAt(TestCase("u2", "Export", "SKIPPED", <<>>, Absent, Absent, 1, 1), 1) }

InitBrowse == Mounted(BrowseStore)

\* A session on the loaded list: the operator searches and filters,
\* deletes cases one by one and clears the database.
NextBrowse ==
  \/ GetAllDone
  \/ SetSearchQuery
  \/ ToggleTag
  \/ SetStatusFilter
  \/ SetIterationFilter
  \/ SetViewMode
  \/ HandleDeleteClick
  \/ HandleClearDbClick
  \/ CancelConfirm
  \/ ExecuteConfirmAction
  \/ DeleteDone
  \/ ClearDone

SpecBrowse == InitBrowse /\ [][NextBrowse]_vars

\* A session of the form for new cases: the operator fills in the title and
\* the version, submits, and may submit again while the save is in flight;
\* the sidebar's version buttons are pressed between the sessions.
NextCreate ==
  \/ OpenCreateForm
  \/ SetFormTitle
  \/ SetFormIteration
  \/ HandleSubmit
  \/ HandleResubmit
  \/ PutDone
  \/ GetAllDone
  \/ SetIterationFilter

SpecCreate == Init /\ [][NextCreate]_vars

\* A session that imports batches more than once, at different times and
\* with global tags.
NextReimport ==
  \/ Tick
  \/ ToggleJsonManager
  \/ PasteBatchText
  \/ SetGlobalTags
  \/ HandleReimport
  \/ BulkDone
  \/ GetAllDone

SpecReimport == Init /\ [][NextReimport]_vars

\* ------------------------------------------------------------ properties

\* The in-memory list as a set of records.
Shown == Range(testCases)

\* A record set with the updatedAt of every record blanked.
UpToUpdatedAt(S) == {[r EXCEPT !.updatedAt = 0] : r \in S}

\* The request at the head of the queue is `op`, and the engine is sound.
Completing(op) == pending /= <<>> /\ Head1.op = op /\ ~dbFault

\* C1: when the put of saveTestCase(r) completes, the store holds exactly one
\* record with r's id, that record is r field for field, getAllTestCases lists
\* it once, and every record with another id is as it was.
C1_SaveUpserts ==
  [][(Completing("put") /\ PutDone) =>
       LET r == Head1.recs[1]
           all == getAllTestCases(store')
       IN /\ {x \in store' : x.id = r.id} = {r}
          /\ Cardinality({i \in 1..Len(all) : all[i].id = r.id}) = 1
          /\ {x \in store' : x.id /= r.id} = {x \in store : x.id /= r.id}]_vars

\* C1 witness: the case saved at time 1 was edited at time 2 (its status set
\* to PASSING) beside a second record, and is still the only record of its id.
C1_Witness ==
  /\ Cardinality(store) = 2
  /\ \E r \in store :
       r.id = "a" /\ r.status = "PASSING" /\ r.createdAt = 1 /\ r.updatedAt = 2

\* C2: importing the export of the record set S, with no global tags, leaves
\* the store equal to S in every field but updatedAt.
C2_RoundTrip ==
  [][(/\ Completing("bulk") /\ Head1.flow = "import" /\ BulkDone
      /\ importText = JSONstringify(testCases)
      /\ Shown = store
      /\ ExtraTags(globalTags) = <<>>
      /\ Len(Head1.recs) = Len(testCases)
      /\ \A i \in 1..Len(testCases) :
           Head1.recs[i] = ImportRecord(RecordToJson(testCases[i]), <<>>, Absent,
                                        Head1.recs[i].updatedAt))
     => UpToUpdatedAt(store') = UpToUpdatedAt(store)]_vars

\* The batch has an item with no title (absent or empty).
SomeItemLacksTitle(text) ==
  /\ ~TextIsBlank(text) /\ ~ParseThrows(text)
  /\ \E i \in 1..Len(ParsedArray(text)) : ~Truthy(ParsedArray(text)[i].title)

\* What a rejected import leaves: an error shown, no request made, the store
\* and the queue of requests as they were.
ImportRejected ==
  /\ importError' /= NoError
  /\ store' = store
  /\ pending' = pending
  /\ uuids' = uuids

\* C3: an import whose batch has an item without a title, at any position,
\* writes no item, reports an error and leaves the store as it was.
C3_ImportAllOrNothing ==
  [][(HandleImport /\ SomeItemLacksTitle(importText)) => ImportRejected]_vars

\* C3 witness: the import of a batch whose second item has no title was
\* rejected while the store held a record.
C3_Witness ==
  /\ importError /= NoError
  /\ importText =
       JsonArray(<<Item("b", "Login", AbsentNum), Item("a", Absent, AbsentNum)>>)
  /\ store /= {}
  /\ \A r \in store : r.id /= "b"

\* C4: a stored record's createdAt is the same in the next store state that
\* holds its id.
C4_CreatedAtImmutable ==
  [][\A r \in store : \A r2 \in store' :
       r2.id = r.id => r2.createdAt = r.createdAt]_vars

\* C5: when the reload that follows a flow's write finishes, the in-memory
\* record set is a value the store has had since that write was committed.
C5_ReloadShowsWrite ==
  [][(pending /= <<>> /\ Head1.op = "getAll" /\ Head1.flow /= "mount" /\ GetAllDone)
       => Shown' \in Head1.seen]_vars

\* C6: a bulk import whose call fails leaves none of its records in the
\* store, and one whose call succeeds leaves every one of them there.
C6_BulkAtomic ==
  [][(pending /= <<>> /\ Head1.op = "bulk" /\ BulkDone) =>
       IF Head1.flow = "orphan" \/ dbFault
       THEN \A r \in Range(Head1.recs) : r \in store' => r \in store
       ELSE \A r \in Range(Head1.recs) : r \in store']_vars

\* C7: when the delete of deleteTestCase(id) completes, no record has that
\* id and every other record is as it was; the call does not fail (the flow
\* goes on to its reload), whether or not a record had the id.
C7_DeleteRemoves ==
  [][(Completing("delete") /\ DeleteDone) =>
       /\ \A x \in store' : x.id /= Head1.id
       /\ store' = {x \in store : x.id /= Head1.id}
       /\ pending' /= <<>>
       /\ pending'[Len(pending')].op = "getAll"
       /\ pending'[Len(pending')].flow = "delete"]_vars

\* C7 witness: the list still shows a record the store no longer has (its
\* reload failed), its delete was confirmed again, and that delete is about
\* to complete on a sound engine.
C7_Witness ==
  /\ Completing("delete")
  /\ \A x \in store : x.id /= Head1.id
  /\ \E x \in Shown : x.id = Head1.id
  /\ store /= {}

\* C8: no stored record has a title that is missing, empty or only whitespace.
C8_TitleNeverBlank ==
  \A r \in store : Truthy(r.title) /\ Truthy(Trim(r.title))

\* The text is empty, is not JSON, or holds a value that is not an object.
Malformed(text) ==
  \/ TextIsBlank(text)
  \/ ParseThrows(text)
  \/ \E i \in 1..Len(ParsedArray(text)) : ParsedArray(text)[i].js /= "object"

\* C9: an import whose text is empty, is not JSON, or parses to a number, a
\* string, a boolean, null or an array holding one, is rejected as a whole
\* with an error, and the store is as it was.
C9_RejectsMalformed ==
  [][(HandleImport /\ Malformed(importText)) => ImportRejected]_vars

\* C9 witness: the import of an array holding a string beside an object was
\* rejected while the store held a record.
C9_Witness ==
  /\ importError /= NoError
  /\ importText = JsonArray(<<Item("b", "Login", AbsentNum), Scalar("string")>>)
  /\ store /= {}
  /\ \A r \in store : r.id /= "b"

\* C10: every stored record has updatedAt >= createdAt.
C10_UpdatedNotBeforeCreated ==
  \A r \in store : r.updatedAt >= r.createdAt

\* No entry of the list occurs twice.
NoDuplicates(s) == \A i, j \in 1..Len(s) : s[i] = s[j] => i = j

\* The global tags the batch names: the trimmed, non-empty entries.
GlobalTagSet == {Trim(g) : g \in Range(globalTags)} \ {""}

\* The tags the item carries: those of its tags array, or none.
ItemTagSet(e) == IF e.tagsIsArray THEN Range(e.tags) ELSE {}

\* HandleImport has passed a batch on to the store.
ImportAccepted == HandleImport /\ pending' /= pending

\* The record the import has requested for item i.
Requested(i) == pending'[Len(pending')].recs[i]

\* C11: no stored record's tag list has a duplicate entry, and the tags
\* of the record an import writes for an item are a duplicate-free list of
\* exactly the item's own tags (none when tags is absent or no array) and the
\* batch's global tags.
C11_TagsAreSets ==
  /\ [](\A r \in store : NoDuplicates(r.tags))
  /\ [][ImportAccepted =>
          \A i \in 1..Len(pending'[Len(pending')].recs) :
            /\ NoDuplicates(Requested(i).tags)
            /\ Range(Requested(i).tags) =
                 ItemTagSet(ParsedArray(importText)[i]) \cup GlobalTagSet]_vars

\* C11 witness: the item tagged a, a, b was imported with the global tags
\* "b,b" and its record, tagged a and b once each, is in the store.
C11_Witness ==
  /\ importText =
       JsonSingle(FieldItem("a", <<"a", "a", "b">>, TRUE, Absent, Absent, JsObject))
  /\ globalTags = <<"b", "b">>
  /\ \E r \in store : r.id = "a" /\ r.tags = <<"a", "b">> /\ r.status = "DRAFT"

\* C12: the input and the expectedOutput of every stored record are strings.
C12_FieldsAreText ==
  \A r \in store : TypeofString(r.input) /\ TypeofString(r.expectedOutput)

\* The four status values.
StatusValues == {"DRAFT", "PASSING", "FAILING", "SKIPPED"}

\* C13: every stored record's status is one of the four values; an import
\* of a well-formed batch is accepted whatever the status of its items, and
\* the record it writes for an item has the item's status when that is one of
\* the four values and DRAFT otherwise.
C13_StatusInEnum ==
  /\ [](\A r \in store : r.status \in StatusValues)
  /\ [][(HandleImport /\ importText \in FieldTexts) =>
          /\ ImportAccepted
          /\ importError' = NoError
          /\ \A i \in 1..Len(ParsedArray(importText)) :
               Requested(i).status =
                 IF ParsedArray(importText)[i].status \in StatusValues
                 THEN ParsedArray(importText)[i].status
                 ELSE "DRAFT"]_vars

\* C13 witness: the item with the status "passing" (no status value) was
\* imported, and its record is stored as a DRAFT.
C13_Witness ==
  /\ importText = JsonSingle(FieldItem("a", <<>>, FALSE, "passing", JsNumber, "x"))
  /\ \E r \in store : r.id = "a" /\ r.status = "DRAFT" /\ r.expectedOutput = "x"

\* The ids the store and the list hold.
KnownIds == {r.id : r \in store} \cup {r.id : r \in Shown}

\* C20: the record an import writes for an item has the item's id when the
\* item has one and an id held by no record otherwise, the item's createdAt
\* when the item has one (0 included) and the import time otherwise, and
\* the import time as its updatedAt.
C20_ImportKeepsIdAndCreatedAt ==
  [][ImportAccepted =>
       \A i \in 1..Len(pending'[Len(pending')].recs) :
         LET e == ParsedArray(importText)[i]
             r == Requested(i)
         IN /\ IF e.id /= Absent THEN r.id = e.id ELSE r.id \notin KnownIds
            /\ r.createdAt = IF e.createdAt /= AbsentNum THEN e.createdAt ELSE now
            /\ r.updatedAt = now]_vars

\* The search text is empty or occurs, whatever the case of the letters, in
\* the title or in the description.
SearchHolds(r) ==
  \/ searchQuery = ""
  \/ Includes(ToLower(r.title), ToLower(searchQuery))
  \/ Includes(ToLower(r.description), ToLower(searchQuery))

\* Every selected tag is one of the record's tags.
TagsHold(r) == Range(selectedTags) \subseteq Range(r.tags)

\* The record's iteration, with empty and missing read as "Unassigned".
GroupOf(r) == IF r.iteration \in {"", Absent, "Unassigned"} THEN "Unassigned" ELSE r.iteration

\* C14: the list view holds exactly the loaded records that pass the search,
\* tag, status and iteration filters all at once, each once and in the order
\* they were loaded.
C14_ListIsConjunction ==
  /\ Range(listFilteredCases) =
       {r \in Shown : /\ SearchHolds(r)
                      /\ TagsHold(r)
                      /\ statusFilter \in {"ALL", r.status}
                      /\ iterationFilter \in {"ALL", GroupOf(r)}}
  /\ Len(listFilteredCases) = Cardinality(Range(listFilteredCases))
  /\ \A i, j \in 1..Len(listFilteredCases) :
       i < j => \E k, l \in 1..Len(testCases) :
                  /\ k < l
                  /\ testCases[k] = listFilteredCases[i]
                  /\ testCases[l] = listFilteredCases[j]

\* C14 witness: four cases are loaded and all four filters are set; the one
\* case that matches the search only through its description, in other
\* letter case, and has both selected tags is the list.
C14_Witness ==
  /\ Len(testCases) = 4
  /\ searchQuery = "LOG"
  /\ selectedTags = <<"a", "b">>
  /\ statusFilter = "DRAFT"
  /\ iterationFilter = "Unassigned"
  /\ Len(listFilteredCases) = 1
  /\ listFilteredCases[1].id = "u1"

\* The loaded records with no iteration of their own.
UnassignedGroup == {r \in Shown : r.iteration \in {"", Absent, "Unassigned"}}

\* C15: with the iteration filter at "Unassigned" the report holds exactly
\* the records whose iteration is empty, missing or "Unassigned", the list
\* holds none but them and, with the other filters clear, all of them; the
\* sidebar has the one entry "Unassigned" for them whenever there is such a
\* record, and no entry for an empty or a missing iteration.
C15_UnassignedIsOneGroup ==
  /\ iterationFilter = "Unassigned" =>
       /\ Range(reportFilteredCases) = UnassignedGroup
       /\ Range(listFilteredCases) \subseteq UnassignedGroup
       /\ (searchQuery = "" /\ selectedTags = <<>> /\ statusFilter = "ALL")
            => Range(listFilteredCases) = UnassignedGroup
  /\ uniqueIterations \cap {"", Absent} = {}
  /\ "Unassigned" \in uniqueIterations <=> UnassignedGroup /= {}

\* C15 witness: the report is filtered to "Unassigned" and holds two cases,
\* the imported one that has no iteration and the one stored as "Unassigned".
C15_Witness ==
  /\ iterationFilter = "Unassigned"
  /\ viewMode = "report"
  /\ Len(reportFilteredCases) = 2
  /\ {r.iteration : r \in Range(reportFilteredCases)} = {Absent, "Unassigned"}
  /\ Len(testCases) = 4

\* The number of the records of the list that have the status.
Having(cases, st) == Cardinality({r \in Range(cases) : r.status = st})

\* C16: the counts of the list view are taken over the filtered list and
\* those of the report over the report's records: total is the number of
\* those records, and each status count the number of them with that status.
C16_CountsOverFiltered ==
  /\ stats.total = Cardinality(Range(listFilteredCases))
  /\ stats.passing = Having(listFilteredCases, "PASSING")
  /\ stats.failing = Having(listFilteredCases, "FAILING")
  /\ stats.draft = Having(listFilteredCases, "DRAFT")
  /\ reportStats.total = Cardinality(Range(reportFilteredCases))
  /\ reportStats.passing = Having(reportFilteredCases, "PASSING")
  /\ reportStats.failing = Having(reportFilteredCases, "FAILING")
  /\ reportStats.skipped = Having(reportFilteredCases, "SKIPPED")
  /\ reportStats.draft = Having(reportFilteredCases, "DRAFT")

\* C16 witness: four cases are loaded, the list is filtered down to the one
\* failing case, and the counts are 1 in total, 1 failing and 0 passing.
C16_Witness ==
  /\ Len(testCases) = 4
  /\ viewMode = "list"
  /\ selectedTags = <<"a">>
  /\ statusFilter = "FAILING"
  /\ stats = [total |-> 1, passing |-> 0, failing |-> 1, draft |-> 0]

\* The write at the head of the queue fails: the engine rejects it or, for
\* an import, store.put has thrown for one of the batch's records.
WriteFails ==
  /\ pending /= <<>>
  /\ \/ Head1.op \in {"put", "delete"} /\ dbFault
     \/ Head1.op = "bulk" /\ (dbFault \/ Head1.flow = "orphan")

\* C17: a write that fails leaves the store as it was before the action; a
\* failed save leaves the form as open as it was and shows an error, a failed
\* import shows an error and keeps the import text and the global tags, a
\* failed delete leaves the loaded records as they were.
C17_FailedWriteLeavesDataUntouched ==
  [][(WriteFails /\ (PutDone \/ BulkDone \/ DeleteDone)) =>
       /\ store' = store
       /\ Head1.op = "put" =>
            isFormOpen' = isFormOpen /\ formData' = formData /\ formError' /= NoError
       /\ Head1.op = "bulk" =>
            /\ importText' = importText
            /\ globalTags' = globalTags
            /\ showJsonManager => importError' /= NoError
       /\ Head1.op = "delete" => testCases' = testCases]_vars

\* A store operation a UI action has started fails.
OperationFails ==
  /\ pending /= <<>>
  /\ dbFault
  /\ Head1.flow /= "mount"
  /\ PutDone \/ BulkDone \/ DeleteDone \/ ClearDone \/ GetAllDone

\* C18: when a store operation a UI action has started fails, an error is
\* on display afterwards.
C18_FailureIsShown ==
  [][OperationFails => (formError' /= NoError \/ importError' /= NoError)]_vars

\* The number of stored records with the status.
Stored(db, st) == Cardinality({x \in db : x.status = st})

\* C19: the record a submit of the edit form requests has the id and the
\* createdAt of the case being edited and the submit time as updatedAt; when
\* its put completes on a store that holds the id, the number of records is
\* as before, the stored record keeps its createdAt, and an edit from DRAFT to
\* PASSING makes the PASSING count one more and the DRAFT count one less.
C19_EditKeepsIdentity ==
  /\ [][(HandleSubmit /\ editingCase /= <<>> /\ pending' /= pending) =>
          LET r == pending'[Len(pending')].recs[1]
          IN /\ r.id = editingCase[1].id
             /\ r.createdAt = editingCase[1].createdAt
             /\ r.updatedAt = now]_vars
  /\ [][(Completing("put") /\ PutDone /\ \E x \in store : x.id = Head1.recs[1].id) =>
          LET r == Head1.recs[1]
              old == CHOOSE x \in store : x.id = r.id
          IN /\ Cardinality(store') = Cardinality(store)
             /\ \E x \in store' :
                  x.id = r.id /\ x.createdAt = old.createdAt /\ x.updatedAt = r.updatedAt
             /\ (old.status = "DRAFT" /\ r.status = "PASSING") =>
                  /\ Stored(store', "PASSING") = Stored(store, "PASSING") + 1
                  /\ Stored(store', "DRAFT") = Stored(store, "DRAFT") - 1]_vars

\* C19 witness: the put of an edit has completed and its reload has not: the
\* list still shows the case as a DRAFT, the store holds it as PASSING with
\* the same createdAt and a later updatedAt.
C19_Witness ==
  /\ pending /= <<>> /\ Head1.op = "getAll" /\ Head1.flow = "save"
  /\ \E x \in store : \E y \in Shown :
       /\ x.id = y.id
       /\ y.status = "DRAFT" /\ x.status = "PASSING"
       /\ x.createdAt = y.createdAt
       /\ x.updatedAt > y.updatedAt

\* The records that have no iteration property.
WithoutIteration(S) == {r \in S : r.iteration = Absent}

\* C21: opening a VERSION 1 database leaves every record in the store as
\* it was, keeps the indexes that were there and adds by-iteration; once the
\* records are loaded, those without an iteration are all in the list, the
\* sidebar offers "Unassigned", and with that filter set the report and
\* (no other filter set) the list hold them.
C21_UpgradeKeepsRecords ==
  /\ [][(OpenDone /\ schema = SchemaV1) =>
          /\ store' = store
          /\ schema'.version = VERSION
          /\ schema'.hasStore
          /\ schema'.indexNames = schema.indexNames \cup {"by-iteration"}]_vars
  /\ []((pending = <<>> /\ WithoutIteration(store) /= {}) =>
          /\ WithoutIteration(store) \subseteq Shown
          /\ "Unassigned" \in uniqueIterations
          /\ iterationFilter = "Unassigned" =>
               /\ WithoutIteration(store) \subseteq Range(reportFilteredCases)
               /\ (selectedTags = <<>> /\ statusFilter = "ALL") =>
                    Range(listFilteredCases) = WithoutIteration(store))

\* C21 witness: the VERSION 1 database with two records was opened; it now
\* has both indexes and both records, and the list filtered to "Unassigned"
\* is those two records.
C21_Witness ==
  /\ store = V1Store
  /\ schema = Schema(VERSION, TRUE, {"by-status", "by-iteration"})
  /\ iterationFilter = "Unassigned"
  /\ selectedTags = <<>> /\ statusFilter = "ALL"
  /\ Range(listFilteredCases) = V1Store

\* The list is in the order of non-increasing updatedAt.
NewestFirst(s) == \A i, j \in 1..Len(s) : i < j => s[i].updatedAt >= s[j].updatedAt

\* Every two entries of sub stand in all in the order they have in sub.
InOrderOf(sub, all) ==
  \A i, j \in 1..Len(sub) :
    i < j => \E k, l \in 1..Len(all) : k < l /\ all[k] = sub[i] /\ all[l] = sub[j]

\* C22: the loaded list is in the order of non-increasing updatedAt, a
\* reload that returns loads the store's records in that order, and the
\* filtered list and the report's list keep the loaded list's order under
\* every filter setting.
C22_NewestFirst ==
  /\ [](NewestFirst(testCases))
  /\ [](InOrderOf(listFilteredCases, testCases) /\ NewestFirst(listFilteredCases))
  /\ [](InOrderOf(reportFilteredCases, testCases) /\ NewestFirst(reportFilteredCases))
  /\ [][(pending /= <<>> /\ Head1.op = "getAll" /\ ~dbFault /\ GetAllDone) =>
          /\ Shown' = store
          /\ Len(testCases') = Cardinality(store)
          /\ NewestFirst(testCases')]_vars

\* C22 witness: four cases are loaded, the two saved last first, and the
\* search "LOG" lists three of them in that order, which is not the order
\* of their keys.
C22_Witness ==
  /\ [i \in 1..Len(testCases) |-> testCases[i].id] = <<"b", "u2", "a", "u1">>
  /\ searchQuery = "LOG"
  /\ [i \in 1..Len(listFilteredCases) |-> listFilteredCases[i].id] = <<"b", "a", "u1">>

\* C27: the iteration filter is ALL or the label of a loaded record, and
\* every selected tag is a tag of a loaded record.
C27_FiltersReferToLoaded ==
  /\ iterationFilter \in {"ALL"} \cup uniqueIterations
  /\ Range(selectedTags) \subseteq uniqueTags

\* C23: when the clear of clearAllTestCases completes, getAllTestCases
\* returns the empty sequence; when the reload that follows it returns, the
\* loaded list, the tag choices and the iteration choices are empty.
C23_ClearEmpties ==
  /\ [][(Completing("clear") /\ ClearDone) =>
          /\ getAllTestCases(store') = <<>>
          /\ pending'[Len(pending')].op = "getAll"
          /\ pending'[Len(pending')].flow = "clear"]_vars
  /\ [][(Completing("getAll") /\ Head1.flow = "clear" /\ GetAllDone) =>
          /\ testCases' = <<>>
          /\ uniqueTags' = {}
          /\ uniqueIterations' = {}]_vars

\* C23 witness: three cases are loaded, with tags and iterations to choose
\* from, and the clear has completed: the store is empty and its reload is in
\* flight.
C23_Witness ==
  /\ pending /= <<>> /\ Head1.op = "getAll" /\ Head1.flow = "clear"
  /\ store = {}
  /\ Len(testCases) = 3
  /\ uniqueTags = {"a", "b"}
  /\ Cardinality(uniqueIterations) = 2

\* C24: the label a card shows for a loaded record, and the label the form
\* shows for it when it is opened, is the label of the record's filter
\* group: "Unassigned" when the stored iteration is empty or missing.
C24_LabelIsGroup ==
  \A r \in Shown :
    /\ CardIterationLabel(r) = NormIteration(r)
    /\ FormIterationLabel(EditFormData(r)) = NormIteration(r)
    /\ r.iteration \in {"", Absent} => CardIterationLabel(r) = "Unassigned"

\* The ids of the records the step takes out of the store.
Removed == {x.id : x \in store} \ {x.id : x \in store'}

\* C26: a delete click with an empty id opens no dialog; a delete click on
\* a card opens the dialog for that card's id and changes no data; Cancel
\* closes the dialog and changes neither the store, the loaded list nor the
\* requests in flight; Confirm requests the action of the open dialog; and
\* records leave the store only while the confirmed dialog of that action
\* is open: a delete takes out exactly the record of the dialog's id, a clear
\* every record.
C26_DeleteOnlyAfterConfirm ==
  /\ [](\A id \in {"", Absent, JsNull} : DeleteDialog(confirmConfig, id) = confirmConfig)
  /\ [][HandleDeleteClick =>
          /\ store' = store /\ testCases' = testCases /\ pending' = pending
          /\ confirmConfig'.isOpen /\ confirmConfig'.action = "delete"
          /\ \E r \in Range(listFilteredCases) : confirmConfig'.id = r.id]_vars
  /\ [][CancelConfirm =>
          /\ store' = store /\ testCases' = testCases /\ pending' = pending
          /\ ~confirmConfig'.isOpen]_vars
  /\ [][ExecuteConfirmAction =>
          /\ store' = store
          /\ pending'[Len(pending')].op = confirmConfig.action
          /\ confirmConfig.action = "delete" =>
               pending'[Len(pending')].id = confirmConfig.id]_vars
  /\ [][Removed /= {} =>
          /\ confirmConfig.isOpen /\ isConfirming
          /\ Head1.op = confirmConfig.action
          /\ confirmConfig.action = "delete" =>
               /\ Removed = {confirmConfig.id}
               /\ store' = {x \in store : x.id /= confirmConfig.id}
          /\ confirmConfig.action = "clear" => store' = {}]_vars

\* C26 witness: two cases are loaded, the delete of case a was confirmed
\* and has completed: the dialog for a is still open, the store holds the
\* other case only, and the reload is in flight.
C26_Witness ==
  /\ pending /= <<>> /\ Head1.op = "getAll" /\ Head1.flow = "delete"
  /\ confirmConfig = [isOpen |-> TRUE, action |-> "delete", id |-> "a"]
  /\ isConfirming
  /\ Len(testCases) = 2
  /\ {x.id : x \in store} = {"u1"}

\* C25: a put of the form for new cases that completes while the reload
\* of an earlier save of that form is in flight adds no record: the store
\* has the ids it had.
C25_OneRecordPerSession ==
  [][(/\ Completing("put") /\ Head1.flow = "save" /\ PutDone
      /\ isFormOpen /\ editingCase = <<>>
      /\ \E i \in 2..Len(pending) :
           pending[i].flow = "save" /\ pending[i].op = "getAll")
     => {x.id : x \in store'} = {x.id : x \in store}]_vars

\* C28: no stored record has the iteration "ALL", and when the iteration
\* filter is the label of a loaded record the report holds exactly the loaded
\* records of that label.
C28_NoRecordLabelledAll ==
  /\ \A r \in store : NormIteration(r) /= "ALL"
  /\ iterationFilter \in uniqueIterations =>
       Range(reportFilteredCases) = {r \in Shown : NormIteration(r) = iterationFilter}

\* A refreshData call is in flight: it awaits initDB or getAll.
ReloadInFlight == \E i \in 1..Len(pending) : pending[i].op \in {"open", "getAll"}

\* C29: loading is true exactly while a reload is in flight.
C29_LoadingWhileReloading == loading <=> ReloadInFlight

\* The ids of the store.
Ids(db) == {x.id : x \in db}

\* The ids the items of a batch carry.
ItemIds(elems) == {elems[i].id : i \in {j \in 1..Len(elems) : Truthy(elems[j].id)}}

\* The last item of a batch that carries the id: its put is the one that stays.
LastItem(elems, id) ==
  elems[CHOOSE i \in 1..Len(elems) :
          /\ elems[i].id = id
          /\ \A j \in (i + 1)..Len(elems) : elems[j].id /= id]

\* The import that completes writes the batch elems with the global tags g
\* (one record per item, with the item's title, all built at one time), and
\* the store already holds what an earlier import of that batch with those
\* tags wrote.
ImportedBefore(elems, g) ==
  /\ Completing("bulk") /\ Head1.flow = "import"
  /\ Len(Head1.recs) = Len(elems)
  /\ \A i \in 1..Len(elems) : Head1.recs[i].title = elems[i].title
  /\ \E k \in 0..uuids :
       Head1.recs = ValidatedCases(elems, g, k, Head1.recs[1].updatedAt)
  /\ \E k \in 0..uuids, t \in 0..now :
       PutAll(store, ValidatedCases(elems, g, k, t)) = store

\* r2 is r1 but for updatedAt and, where keepCreated is false, createdAt.
SameButStamps(r1, r2, keepCreated) ==
  [r2 EXCEPT !.updatedAt = r1.updatedAt,
             !.createdAt = IF keepCreated THEN @ ELSE r1.createdAt] = r1

====
